---- MODULE Spec2Model ----
(***************************************************************************)
(* Objective construction of edward/inferences/klqp.py.                    *)
(*                                                                         *)
(* An inference session is built from latent_vars, data, an optional       *)
(* model wrapper and a parameter list; initialize() stores n_samples (and, *)
(* for KLqp, the score flag); build_loss_and_gradients()/build_loss() run  *)
(* one of the seven free builder functions.  Tensors are symbolic: a       *)
(* log-density term records which random variable it belongs to, the value *)
(* it is evaluated at, the scope ('inference_<s>') of the sample it was    *)
(* built from and whether the value is wrapped in stop_gradient.  A sum of *)
(* terms is the sequence of its summands.  Python lists of dicts are lists *)
(* of references into a heap, so that `[{}] * n` shares one dict.          *)
(***************************************************************************)
EXTENDS Integers, Sequences, FiniteSets, TLC

\* ---------------------------------------------------------------- bounds
MaxSamples == 2

\* ------------------------------------------------------------- universes
ZKeys == {"z1", "z2"}
ZOrder == <<"z1", "z2">>
XOrder == <<"x1", "xid">>
RVKeys == {"z1", "z2", "x1"}

Classes == {"KLqp", "ReparameterizationKLqp", "ReparameterizationKLKLqp",
            "ReparameterizationEntropyKLqp", "ScoreKLqp", "ScoreRBKLqp",
            "ScoreKLKLqp", "ScoreEntropyKLqp"}
ReparamClasses == {"ReparameterizationKLqp", "ReparameterizationKLKLqp",
                   "ReparameterizationEntropyKLqp"}
Wrappers == {"None", "NoLogLik", "WithLogLik"}

\* ------------------------------------------------------ generic helpers
MapSeq(f(_), seq) == [i \in 1..Len(seq) |-> f(seq[i])]

KeysInOrder(order, S) == SelectSeq(order, LAMBDA k : k \in S)

RECURSIVE Flatten(_)
Flatten(ss) == IF ss = <<>> THEN <<>> ELSE Head(ss) \o Flatten(Tail(ss))

Range(seq) == {seq[i] : i \in 1..Len(seq)}

\* ------------------------------------------------------------ variables
VARIABLES
  cls,            \* the inference class that was instantiated
  latent_vars,    \* z |-> [z_family, qz_family, is_reparameterized, is_continuous]
  data,           \* the set of data keys (values are the observations)
  model_wrapper,  \* "None", or a wrapper without / with log_lik
  graph,          \* model graph: key |-> set of direct children
  var_list,       \* the parameters handed to build_loss_and_gradients
  arg_score,      \* initialize()'s score argument: "None", "True", "False"
  arg_n_samples,  \* initialize()'s n_samples argument
  pc,             \* "new", "initialized", "loop", "done", "error"
  score,          \* self.score: "unset", "True", "False"
  n_samples,      \* self.n_samples (0 before initialize)
  is_analytic_kl, \* the dispatcher's local flag: "unset", "True", "False"
  builder,        \* the free builder function that was entered
  s,              \* loop index of the sampling loop
  p_log_prob, p_log_lik, q_log_prob,  \* per-sample sums
  p_log_probs, q_log_probs,           \* per-sample references to dicts
  heap,           \* address |-> dict (key |-> term)
  model_copies,   \* number of copy(rv, dict_swap, ...) of model variables
  wrapper_calls,  \* number of model_wrapper.log_prob / log_lik calls
  loss,           \* the returned loss expression
  surrogates,     \* the expressions handed to tf.gradients
  grads_and_vars, \* the returned (gradient, parameter) pairs
  error           \* exception raised, "" when none

config == <<cls, latent_vars, data, model_wrapper, graph, var_list,
            arg_score, arg_n_samples>>
session == <<score, n_samples>>
dispatch == <<is_analytic_kl, builder>>
accum == <<p_log_prob, p_log_lik, q_log_prob, p_log_probs, q_log_probs, heap,
           model_copies, wrapper_calls>>
result == <<loss, surrogates, grads_and_vars, error>>
vars == <<config, session, accum, result, pc, dispatch, s>>

\* ------------------------------------------------------ the model graph
\* The nodes reachable from front along the edges of the model graph.
RECURSIVE Reach(_, _)
Reach(front, seen) ==
  LET next == (UNION {graph[k] : k \in front}) \ seen
  IN IF next = {} THEN seen ELSE Reach(next, seen \cup next)

Ancestors(rv) == {k \in RVKeys : rv \in Reach({k}, {})}

\* ------------------------------------------------- symbolic expressions
\* A sampled value qz_copy.value() drawn in scope 'inference_<sc>'.
Draw(z, sc) == [kind |-> "draw", of |-> z, scope |-> sc]

\* An observed value data[x].
Obs(x) == [kind |-> "obs", of |-> x, scope |-> -1]

\* Variant: the sample is passed to log_prob without tf.stop_gradient.
QTerm_no_stop(z, v, sg) ==
  [fn |-> "q.log_prob", rv |-> z, at |-> v, scope |-> -1, sg |-> FALSE, swap |-> {}]

\* tf.reduce_sum(qz.log_prob(v)), with v wrapped in stop_gradient when sg.
QTerm(z, v, sg) ==
  [fn |-> "q.log_prob", rv |-> z, at |-> v, scope |-> -1, sg |-> sg, swap |-> {}]

\* tf.reduce_sum(copy(rv, dict_swap, scope).log_prob(v)); swap holds the
\* values that dict_swap substitutes for the ancestors of rv.
ModelTerm(rv, v, ds, sc) ==
  [fn |-> "p.log_prob", rv |-> rv, at |-> v, scope |-> sc, sg |-> FALSE,
   swap |-> {ds[k] : k \in DOMAIN ds \cap Ancestors(rv)}]

\* model_wrapper.<method>(data, z_sample); swap holds the values of z_sample.
WrapperTerm(method, zs) ==
  [fn |-> method, rv |-> "model_wrapper",
   at |-> [kind |-> "data", of |-> "", scope |-> -1], scope |-> -1,
   sg |-> FALSE, swap |-> {zs[k] : k \in DOMAIN zs}]

\* The scopes of the samples a term is computed from.
TermDraws(t) == {v.scope : v \in {w \in t.swap \cup {t.at} : w.kind = "draw"}}

\* A scalar expression over stacked per-sample sums p and q; stopped tells
\* whether the sampled model factor that multiplies q is wrapped in
\* tf.stop_gradient.
Expr(form, p, q, analytic) ==
  [form |-> form, p |-> p, q |-> q, analytic |-> analytic, stopped |-> FALSE]

\* A score-function surrogate, -mean(q * tf.stop_gradient(<p or p - q>)).
ScoreSurrogate(form, p, q, analytic) ==
  [form |-> form, p |-> p, q |-> q, analytic |-> analytic, stopped |-> TRUE]
NoExpr == Expr("none", <<>>, <<>>, "none")

ExprTerms(e) == Range(Flatten(e.p)) \cup Range(Flatten(e.q))
ExprDraws(e) == UNION {TermDraws(t) : t \in ExprTerms(e)}

\* --------------------------------------------------------------- inputs
QKinds ==
  {[qz_family |-> "Normal", is_reparameterized |-> TRUE, is_continuous |-> TRUE]}
  \cup {[qz_family |-> "Other", is_reparameterized |-> r, is_continuous |-> c] :
          r \in BOOLEAN, c \in BOOLEAN}

LatentKinds ==
  {[z_family |-> zf, qz_family |-> q.qz_family,
    is_reparameterized |-> q.is_reparameterized,
    is_continuous |-> q.is_continuous] : zf \in {"Normal", "Other"}, q \in QKinds}

NormalKind == [z_family |-> "Normal", qz_family |-> "Normal",
               is_reparameterized |-> TRUE, is_continuous |-> TRUE]
DiscreteKind == [z_family |-> "Other", qz_family |-> "Other",
                 is_reparameterized |-> FALSE, is_continuous |-> FALSE]

LatentMaps(kinds) == UNION {[S -> kinds] : S \in SUBSET ZKeys}

GraphCommonChild == [k \in RVKeys |-> IF k \in ZKeys THEN {"x1"} ELSE {}]
GraphChain ==
  [k \in RVKeys |-> IF k = "z1" THEN {"z2"} ELSE IF k = "z2" THEN {"x1"} ELSE {}]
GraphIndependent == [k \in RVKeys |-> IF k = "z1" THEN {"x1"} ELSE {}]
Graphs == {GraphCommonChild, GraphChain, GraphIndependent}

DataSets == {{}, {"x1"}, {"x1", "xid"}}
VarLists == {<<"q1", "q2">>, <<"q2", "q1">>, <<"q1", "q2", "theta">>}

ClassAndScore ==
  {<<"KLqp", sc>> : sc \in {"None", "True", "False"}}
  \cup {<<c, "None">> : c \in Classes \ {"KLqp"}}

\* Inputs that exercise the selector and the dispatcher: every kind of
\* latent, one data set, one parameter list, one graph.
SelectorInputs ==
  [latent_vars : LatentMaps(LatentKinds), model_wrapper : Wrappers,
   cs : ClassAndScore, n : 1..MaxSamples,
   data : {{"x1", "xid"}}, var_list : {<<"q1", "q2">>},
   graph : {GraphCommonChild}]

\* Inputs that exercise the builders: two kinds of latent, every data set,
\* parameter list and graph.
BuilderInputs ==
  [latent_vars : LatentMaps({NormalKind, DiscreteKind}), model_wrapper : Wrappers,
   cs : {c \in ClassAndScore : c[2] # "False"}, n : 1..MaxSamples,
   data : DataSets, var_list : VarLists, graph : Graphs]

Inputs == SelectorInputs \cup BuilderInputs

Init ==
  /\ \E c \in Inputs :
       /\ cls = c.cs[1]
       /\ arg_score = c.cs[2]
       /\ latent_vars = c.latent_vars
       /\ data = c.data
       /\ model_wrapper = c.model_wrapper
       /\ graph = c.graph
       /\ var_list = c.var_list
       /\ arg_n_samples = c.n
  /\ pc = "new"
  /\ score = "unset"
  /\ n_samples = 0
  /\ is_analytic_kl = "unset"
  /\ builder = "none"
  /\ s = 0
  /\ p_log_prob = <<>> /\ p_log_lik = <<>> /\ q_log_prob = <<>>
  /\ p_log_probs = <<>> /\ q_log_probs = <<>>
  /\ heap = <<>>
  /\ model_copies = 0 /\ wrapper_calls = 0
  /\ loss = NoExpr /\ surrogates = <<>> /\ grads_and_vars = <<>>
  /\ error = ""

\* ------------------------------------------------------------ initialize
\* all([rv.is_reparameterized and rv.is_continuous for rv in values])
AllReparamContinuous(lv) ==
  \A z \in DOMAIN lv : lv[z].is_reparameterized /\ lv[z].is_continuous

ResolveScore(sc, lv) ==
  IF sc = "None" /\ AllReparamContinuous(lv) THEN "False" ELSE "True"

KLqp_initialize ==
  /\ pc = "new" /\ cls = "KLqp"
  /\ score' = ResolveScore(arg_score, latent_vars)
  /\ n_samples' = arg_n_samples
  /\ pc' = "initialized"
  /\ UNCHANGED <<config, accum, result, dispatch, s>>

Named_initialize ==
  /\ pc = "new" /\ cls # "KLqp"
  /\ n_samples' = arg_n_samples
  /\ pc' = "initialized"
  /\ UNCHANGED <<config, score, accum, result, dispatch, s>>

\* -------------------------------------------------------------- dispatch
qz_is_normal == \A z \in DOMAIN latent_vars : latent_vars[z].qz_family = "Normal"
z_is_normal == \A z \in DOMAIN latent_vars : latent_vars[z].z_family = "Normal"
HasLogLik(w) == w = "WithLogLik"
\* Variant: any model wrapper counts, with or without log_lik.
AnalyticKL_any_wrapper == qz_is_normal /\ (z_is_normal \/ model_wrapper # "None")

AnalyticKL == qz_is_normal /\ (z_is_normal \/ HasLogLik(model_wrapper))
BoolStr(b) == IF b THEN "True" ELSE "False"

\* Variant: the deactivated analytic-entropy branches are enabled.
Dispatch_with_entropy(sc, kl) ==
  IF sc = "True"
  THEN IF kl = "True" THEN "build_score_kl_loss_and_gradients"
       ELSE IF qz_is_normal THEN "build_score_entropy_loss_and_gradients"
       ELSE "build_score_rb_loss_and_gradients"
  ELSE IF kl = "True" THEN "build_reparam_kl_loss"
       ELSE IF qz_is_normal THEN "build_reparam_entropy_loss"
       ELSE "build_reparam_loss"

Dispatch(sc, kl) ==
  IF sc = "True"
  THEN IF kl = "True" THEN "build_score_kl_loss_and_gradients"
             ELSE "build_score_rb_loss_and_gradients"
  ELSE IF kl = "True" THEN "build_reparam_kl_loss"
             ELSE "build_reparam_loss"

\* Variant: ScoreKLqp picks its builder by the shape of the approximation.
NamedBuilder_by_shape(c) ==
  CASE c = "ReparameterizationKLqp" -> "build_reparam_loss"
    [] c = "ReparameterizationKLKLqp" -> "build_reparam_kl_loss"
    [] c = "ReparameterizationEntropyKLqp" -> "build_reparam_entropy_loss"
    [] c = "ScoreKLqp" -> IF qz_is_normal THEN "build_score_kl_loss_and_gradients"
                          ELSE "build_score_loss_and_gradients"
    [] c = "ScoreRBKLqp" -> "build_score_rb_loss_and_gradients"
    [] c = "ScoreKLKLqp" -> "build_score_kl_loss_and_gradients"
    [] c = "ScoreEntropyKLqp" -> "build_score_entropy_loss_and_gradients"

NamedBuilder(c) ==
  CASE c = "ReparameterizationKLqp" -> "build_reparam_loss"
    [] c = "ReparameterizationKLKLqp" -> "build_reparam_kl_loss"
    [] c = "ReparameterizationEntropyKLqp" -> "build_reparam_entropy_loss"
    [] c = "ScoreKLqp" -> "build_score_loss_and_gradients"
    [] c = "ScoreRBKLqp" -> "build_score_rb_loss_and_gradients"
    [] c = "ScoreKLKLqp" -> "build_score_kl_loss_and_gradients"
    [] c = "ScoreEntropyKLqp" -> "build_score_entropy_loss_and_gradients"

\* [0.0] * n : n immutable zeros, each the empty sum.
Zeros(n) == [i \in 1..n |-> <<>>]

\* [{}] * n : the dict is created once, at address addr, and the list holds
\* n references to it.
\* Variant: one dict per entry, [{} for _ in range(n)].
DictList_fresh(addr, n) == [i \in 1..n |-> addr + i - 1]

DictList(addr, n) == [i \in 1..n |-> addr]

\* The first statements of each builder: its per-sample accumulators.
Enter(b) ==
  /\ builder' = b
  /\ s' = 0
  /\ pc' = "loop"
  /\ p_log_prob' =
       IF b \in {"build_reparam_loss", "build_reparam_entropy_loss",
                 "build_score_loss_and_gradients",
                 "build_score_entropy_loss_and_gradients"}
       THEN Zeros(n_samples) ELSE <<>>
  /\ p_log_lik' =
       IF b \in {"build_reparam_kl_loss", "build_score_kl_loss_and_gradients"}
       THEN Zeros(n_samples) ELSE <<>>
  /\ q_log_prob' =
       IF b \in {"build_reparam_loss", "build_score_loss_and_gradients",
                 "build_score_kl_loss_and_gradients",
                 "build_score_entropy_loss_and_gradients"}
       THEN Zeros(n_samples) ELSE <<>>
  /\ IF b = "build_score_rb_loss_and_gradients"
     THEN /\ p_log_probs' = DictList(1, n_samples)
          /\ q_log_probs' = DictList(n_samples + 1, n_samples)
          /\ heap' = [a \in Range(p_log_probs') \cup Range(q_log_probs') |-> <<>>]
     ELSE UNCHANGED <<p_log_probs, q_log_probs, heap>>
  /\ UNCHANGED <<config, session, model_copies, wrapper_calls, result>>

KLqp_build_loss_and_gradients ==
  /\ pc = "initialized" /\ cls = "KLqp"
  /\ is_analytic_kl' = BoolStr(AnalyticKL)
  /\ Enter(Dispatch(score, is_analytic_kl'))

Named_build ==
  /\ pc = "initialized" /\ cls # "KLqp"
  /\ UNCHANGED is_analytic_kl
  /\ Enter(NamedBuilder(cls))

\* ------------------------------------------------- the sampling loop body
LatentOrder == KeysInOrder(ZOrder, DOMAIN latent_vars)
DataOrder == KeysInOrder(XOrder, data)
IsRandomVariable(x) == x \in RVKeys
DataRVOrder == SelectSeq(DataOrder, IsRandomVariable)

\* z_sample after the loop over latent_vars: one fresh draw per latent, made
\* by copy(qz, scope='inference_' + str(sc)).
ZSample(sc) == [z \in DOMAIN latent_vars |-> Draw(z, sc)]

\* q_log_prob[s] += tf.reduce_sum(qz.log_prob(<z_sample[z]>)) for each latent.
QTerms(zs, sg) == MapSeq(LAMBDA z : QTerm(z, zs[z], sg), LatentOrder)

\* dict_swap = z_sample; dict_swap[x] = obs for every data key that is a
\* RandomVariable.  dict_swap and z_sample are the same dict afterwards.
DictSwap(zs) ==
  [k \in DOMAIN zs \cup Range(DataRVOrder) |->
     IF k \in Range(DataRVOrder) THEN Obs(k) ELSE zs[k]]

\* Variant: the loop runs over the keys of z_sample, which is dict_swap and
\* holds the observed random variables after the merge.
PriorTerms_merged(ds, sc) ==
  MapSeq(LAMBDA k : ModelTerm(k, ds[k], ds, sc),
         KeysInOrder(ZOrder \o XOrder, DOMAIN ds))

\* for z in latent_vars: copy(z, dict_swap, scope).log_prob(z_sample[z])
PriorTerms(ds, sc) == MapSeq(LAMBDA z : ModelTerm(z, ds[z], ds, sc), LatentOrder)

\* for x, obs in data: if isinstance(x, RandomVariable):
\*   copy(x, dict_swap, scope).log_prob(obs)
LikTerms(ds, sc) == MapSeq(LAMBDA x : ModelTerm(x, Obs(x), ds, sc), DataRVOrder)

InLoop(b) == pc = "loop" /\ builder = b /\ s < n_samples
AtReturn(b) == pc = "loop" /\ builder = b /\ s = n_samples

\* p_log_prob[s] of the builders that evaluate the joint density.
JointStep ==
  IF model_wrapper = "None"
  THEN LET ds == DictSwap(ZSample(s))
       IN /\ p_log_prob' =
               [p_log_prob EXCEPT ![s + 1] = @ \o PriorTerms(ds, s) \o LikTerms(ds, s)]
          /\ model_copies' = model_copies + Len(LatentOrder) + Len(DataRVOrder)
          /\ UNCHANGED wrapper_calls
  ELSE /\ p_log_prob' =
            [p_log_prob EXCEPT ![s + 1] = <<WrapperTerm("log_prob", ZSample(s))>>]
       /\ wrapper_calls' = wrapper_calls + 1
       /\ UNCHANGED model_copies

\* p_log_lik[s] of the builders with an analytic KL term; model_wrapper.log_lik
\* raises AttributeError on a wrapper that has no log_lik.
LikStep(others) ==
  IF model_wrapper = "None"
  THEN LET ds == DictSwap(ZSample(s))
       IN /\ p_log_lik' = [p_log_lik EXCEPT ![s + 1] = @ \o LikTerms(ds, s)]
          /\ model_copies' = model_copies + Len(DataRVOrder)
          /\ s' = s + 1
          /\ UNCHANGED <<wrapper_calls, pc, error>>
          /\ others
  ELSE IF HasLogLik(model_wrapper)
  THEN /\ p_log_lik' =
            [p_log_lik EXCEPT ![s + 1] = <<WrapperTerm("log_lik", ZSample(s))>>]
       /\ wrapper_calls' = wrapper_calls + 1
       /\ s' = s + 1
       /\ UNCHANGED <<model_copies, pc, error>>
       /\ others
  ELSE /\ pc' = "error"
       /\ error' = "AttributeError"
       /\ UNCHANGED <<s, accum>>

\* ------------------------------------------------------ returned values
\* tf.gradients(expr, vl): one gradient per entry of vl; i is the index of
\* the differentiated expression in surrogates.
Gradients(i, vl) == [j \in 1..Len(vl) |-> [of |-> i, wrt |-> vl[j]]]

\* [(grad, var) for grad, var in zip(gradients, vl)]
Zip(gs, vl) ==
  [j \in 1..(IF Len(gs) < Len(vl) THEN Len(gs) ELSE Len(vl)) |-> <<gs[j], vl[j]>>]

\* A loss-only builder returns; KLqp.build_loss_and_gradients differentiates
\* the loss itself, the Reparameterization* classes return the loss alone.
ReturnLoss(l) ==
  /\ loss' = l
  /\ IF cls = "KLqp"
     THEN /\ surrogates' = <<l>>
          /\ grads_and_vars' = Zip(Gradients(1, var_list), var_list)
     ELSE UNCHANGED <<surrogates, grads_and_vars>>
  /\ pc' = "done"
  /\ UNCHANGED <<config, session, accum, error, dispatch, s>>

ReturnLossAndGradients(l, g) ==
  /\ loss' = l
  /\ surrogates' = <<g>>
  /\ grads_and_vars' = Zip(Gradients(1, var_list), var_list)
  /\ pc' = "done"
  /\ UNCHANGED <<config, session, accum, error, dispatch, s>>

KLForm == IF model_wrapper = "None" THEN "kl(q||p)" ELSE "kl(q||N(0,1))"

\* ------------------------------------------------- build_reparam_loss
reparam_loop ==
  /\ InLoop("build_reparam_loss")
  /\ q_log_prob' = [q_log_prob EXCEPT ![s + 1] = @ \o QTerms(ZSample(s), FALSE)]
  /\ JointStep
  /\ s' = s + 1
  /\ UNCHANGED <<config, session, result, pc, dispatch,
                 p_log_lik, p_log_probs, q_log_probs, heap>>

reparam_return ==
  /\ AtReturn("build_reparam_loss")
  /\ ReturnLoss(Expr("-mean(p - q)", p_log_prob, q_log_prob, "none"))

\* ---------------------------------------------- build_reparam_kl_loss
reparam_kl_loop ==
  /\ InLoop("build_reparam_kl_loss")
  /\ LikStep(UNCHANGED <<p_log_prob, q_log_prob, p_log_probs, q_log_probs, heap>>)
  /\ UNCHANGED <<config, session, loss, surrogates, grads_and_vars, dispatch>>

reparam_kl_return ==
  /\ AtReturn("build_reparam_kl_loss")
  /\ ReturnLoss(Expr("-(mean(p) - kl)", p_log_lik, <<>>, KLForm))

\* ----------------------------------------- build_reparam_entropy_loss
reparam_entropy_loop ==
  /\ InLoop("build_reparam_entropy_loss")
  /\ JointStep
  /\ s' = s + 1
  /\ UNCHANGED <<config, session, result, pc, dispatch,
                 p_log_lik, q_log_prob, p_log_probs, q_log_probs, heap>>

reparam_entropy_return ==
  /\ AtReturn("build_reparam_entropy_loss")
  /\ ReturnLoss(Expr("-(mean(p) + entropy)", p_log_prob, <<>>, "entropy"))

\* ------------------------------------- build_score_loss_and_gradients
score_loop ==
  /\ InLoop("build_score_loss_and_gradients")
  /\ q_log_prob' = [q_log_prob EXCEPT ![s + 1] = @ \o QTerms(ZSample(s), TRUE)]
  /\ JointStep
  /\ s' = s + 1
  /\ UNCHANGED <<config, session, result, pc, dispatch,
                 p_log_lik, p_log_probs, q_log_probs, heap>>

score_return ==
  /\ AtReturn("build_score_loss_and_gradients")
  /\ ReturnLossAndGradients(
       Expr("-mean(p - q)", p_log_prob, q_log_prob, "none"),
       ScoreSurrogate("-mean(q * stop_gradient(p - q))", p_log_prob, q_log_prob, "none"))

\* ---------------------------------- build_score_kl_loss_and_gradients
score_kl_loop ==
  /\ InLoop("build_score_kl_loss_and_gradients")
  /\ LikStep(/\ q_log_prob' =
                  [q_log_prob EXCEPT ![s + 1] = @ \o QTerms(ZSample(s), TRUE)]
             /\ UNCHANGED <<p_log_prob, p_log_probs, q_log_probs, heap>>)
  /\ UNCHANGED <<config, session, loss, surrogates, grads_and_vars, dispatch>>

score_kl_return ==
  /\ AtReturn("build_score_kl_loss_and_gradients")
  /\ ReturnLossAndGradients(
       Expr("-(mean(p) - kl)", p_log_lik, <<>>, KLForm),
       ScoreSurrogate("-(mean(q * stop_gradient(p)) - kl)", p_log_lik, q_log_prob, KLForm))

\* ----------------------------- build_score_entropy_loss_and_gradients
score_entropy_loop ==
  /\ InLoop("build_score_entropy_loss_and_gradients")
  /\ q_log_prob' = [q_log_prob EXCEPT ![s + 1] = @ \o QTerms(ZSample(s), TRUE)]
  /\ JointStep
  /\ s' = s + 1
  /\ UNCHANGED <<config, session, result, pc, dispatch,
                 p_log_lik, p_log_probs, q_log_probs, heap>>

score_entropy_return ==
  /\ AtReturn("build_score_entropy_loss_and_gradients")
  /\ ReturnLossAndGradients(
       Expr("-(mean(p) + entropy)", p_log_prob, <<>>, "entropy"),
       ScoreSurrogate("-(mean(q * stop_gradient(p)) + entropy)", p_log_prob,
                      q_log_prob, "entropy"))

\* ---------------------------------- build_score_rb_loss_and_gradients
\* d[k] = f(k) for every k of keys, in a dict d.
DictPutAll(d, keys, f(_)) ==
  [k \in DOMAIN d \cup keys |-> IF k \in keys THEN f(k) ELSE d[k]]

\* list(six.itervalues(d)), in key order.
DictValues(d) ==
  MapSeq(LAMBDA k : d[k], KeysInOrder(ZOrder \o XOrder, DOMAIN d))

score_rb_loop ==
  /\ InLoop("build_score_rb_loss_and_gradients")
  /\ LET zs == ZSample(s)
         ds == DictSwap(zs)
         qa == q_log_probs[s + 1]
         pa == p_log_probs[s + 1]
         h1 == [heap EXCEPT ![qa] =
                  DictPutAll(@, DOMAIN latent_vars, LAMBDA z : QTerm(z, zs[z], TRUE))]
         h2 == [h1 EXCEPT ![pa] =
                  DictPutAll(@, DOMAIN latent_vars,
                             LAMBDA z : ModelTerm(z, ds[z], ds, s))]
         h3 == [h2 EXCEPT ![pa] =
                  DictPutAll(@, Range(DataRVOrder),
                             LAMBDA x : ModelTerm(x, Obs(x), ds, s))]
     IN heap' = h3
  /\ model_copies' = model_copies + Len(LatentOrder) + Len(DataRVOrder)
  /\ s' = s + 1
  /\ UNCHANGED <<config, session, result, pc, dispatch, p_log_prob, p_log_lik,
                 q_log_prob, p_log_probs, q_log_probs, wrapper_calls>>

\* z.get_descendants(collection): the members of collection reachable from
\* z along the edges of the model graph, z itself excluded.
get_descendants(z, collection) ==
  SelectSeq(collection, LAMBDA k : k \in Reach({z}, {}) /\ k # z)

\* The approximation that owns a parameter; "model" for a model parameter.
ParamOwner(v) ==
  CASE v = "q1" -> "z1" [] v = "q2" -> "z2" [] OTHER -> "model"

\* qz.get_variables(var_list): the entries of var_list that qz depends on.
get_variables(z, vl) == SelectSeq(vl, LAMBDA v : ParamOwner(v) = z)

model_rvs == LatentOrder \o DataRVOrder

\* Variant: every factor uses the full joint, model_rvs_i = model_rvs.
model_rvs_i_all(z) == model_rvs

\* model_rvs_i = z.get_descendants(model_rvs) + [z]
model_rvs_i(z) == get_descendants(z, model_rvs) \o <<z>>

\* The surrogate of one variational factor, over the stacked pi_log_prob
\* and qi_log_prob.
RBSurrogate(z) ==
  LET rvs == model_rvs_i(z)
      qi == [i \in 1..n_samples |->
               MapSeq(LAMBDA rv : heap[q_log_probs[i]][rv],
                      SelectSeq(rvs, LAMBDA rv : rv \in DOMAIN latent_vars))]
      pi == [i \in 1..n_samples |->
               MapSeq(LAMBDA rv : heap[p_log_probs[i]][rv], rvs)]
  IN ScoreSurrogate("-mean(qi * stop_gradient(pi - qi))", pi, qi, "none")

\* grads_and_vars after the loop over latent_vars: for the i-th factor the
\* pairs of tf.gradients(surrogate_i, qz_vars) with qz_vars.
RECURSIVE RBPairs(_)
RBPairs(i) ==
  IF i = 0 THEN <<>>
  ELSE LET qz_vars == get_variables(LatentOrder[i], var_list)
       IN RBPairs(i - 1) \o Zip(Gradients(i, qz_vars), qz_vars)

\* loss = -(sum(p_log_probs[0].values()) - sum(q_log_probs[0].values()))
RBLoss ==
  Expr("-(sum(p) - sum(q))",
       <<DictValues(heap[p_log_probs[1]])>>,
       <<DictValues(heap[q_log_probs[1]])>>, "none")

score_rb_return ==
  /\ AtReturn("build_score_rb_loss_and_gradients")
  /\ surrogates' = MapSeq(RBSurrogate, LatentOrder)
  /\ grads_and_vars' = RBPairs(Len(LatentOrder))
  /\ loss' = RBLoss
  /\ pc' = "done"
  /\ UNCHANGED <<config, session, accum, error, dispatch, s>>

\* ----------------------------------------------------------------- Next
Next ==
  \/ KLqp_initialize
  \/ Named_initialize
  \/ KLqp_build_loss_and_gradients
  \/ Named_build
  \/ reparam_loop
  \/ reparam_return
  \/ reparam_kl_loop
  \/ reparam_kl_return
  \/ reparam_entropy_loop
  \/ reparam_entropy_return
  \/ score_loop
  \/ score_return
  \/ score_kl_loop
  \/ score_kl_return
  \/ score_entropy_loop
  \/ score_entropy_return
  \/ score_rb_loop
  \/ score_rb_return

Spec == Init /\ [][Next]_vars

TypeOK ==
  /\ pc \in {"new", "initialized", "loop", "done", "error"}
  /\ score \in {"unset", "True", "False"}
  /\ s \in 0..n_samples
  /\ is_analytic_kl \in {"unset", "True", "False"}

\* ======================================================================
\* Properties
\* ======================================================================
Done == pc = "done"
ReturnsGradients == cls \notin ReparamClasses

\* C1: after KLqp.initialize the stored score flag is false exactly when
\* every approximation is reparameterizable and continuous and the caller
\* did not override the flag to true (score in {None, False}); it is true
\* otherwise.
C1_ScoreFlagRule ==
  (cls = "KLqp" /\ pc # "new") =>
    /\ score \in {"True", "False"}
    /\ score = "False" <=>
         /\ \A z \in DOMAIN latent_vars :
              latent_vars[z].is_reparameterized /\ latent_vars[z].is_continuous
         /\ arg_score # "True"

\* C2: KLqp.build_loss_and_gradients enters the builder given by the table
\* over (score, is_analytic_kl), and never an analytic-entropy builder or
\* the vanilla score builder.
C2_DispatchTable ==
  (cls = "KLqp" /\ builder # "none") =>
    /\ (score = "False" /\ is_analytic_kl = "True") => builder = "build_reparam_kl_loss"
    /\ (score = "False" /\ is_analytic_kl = "False") => builder = "build_reparam_loss"
    /\ (score = "True" /\ is_analytic_kl = "True") =>
         builder = "build_score_kl_loss_and_gradients"
    /\ (score = "True" /\ is_analytic_kl = "False") =>
         builder = "build_score_rb_loss_and_gradients"
    /\ score \in {"True", "False"} /\ is_analytic_kl \in {"True", "False"}
    /\ builder \notin {"build_reparam_entropy_loss",
                       "build_score_entropy_loss_and_gradients",
                       "build_score_loss_and_gradients"}

\* Witness of C2: KLqp with the score flag set and no analytic KL has run the
\* Rao-Blackwellized builder to its return.
C2_Witness ==
  /\ cls = "KLqp" /\ Done
  /\ score = "True" /\ is_analytic_kl = "False"
  /\ builder = "build_score_rb_loss_and_gradients"

\* C3: in KLqp.build_loss_and_gradients is_analytic_kl is true iff every
\* approximation is Normal and (every latent key is Normal or the model
\* wrapper has log_lik).
C3_AnalyticKLRule ==
  (cls = "KLqp" /\ builder # "none") =>
    (is_analytic_kl = "True" <=>
       /\ \A z \in DOMAIN latent_vars : latent_vars[z].qz_family = "Normal"
       /\ \/ \A z \in DOMAIN latent_vars : latent_vars[z].z_family = "Normal"
          \/ model_wrapper = "WithLogLik")

\* Witness of C3: Normal approximations of a non-Normal key under a wrapper
\* without log_lik: the flag is false although a wrapper is present.
C3_Witness ==
  /\ cls = "KLqp" /\ builder # "none"
  /\ model_wrapper = "NoLogLik"
  /\ DOMAIN latent_vars = ZKeys
  /\ \A z \in ZKeys : latent_vars[z].qz_family = "Normal"
  /\ \E z \in ZKeys : latent_vars[z].z_family = "Other"
  /\ is_analytic_kl = "False"

\* C4: with a model wrapper present, a finished builder has obtained every
\* per-sample model log-density from the wrapper and has copied no model
\* random variable.
C4_WrapperBypassesGraph ==
  (model_wrapper # "None" /\ Done) =>
    (model_copies = 0 /\ wrapper_calls = n_samples)

\* C5: a builder reached through build_loss_and_gradients(var_list) returns
\* exactly one (gradient, parameter) pair per entry of var_list, in the
\* order of var_list.
C5_OnePairPerParameter ==
  (Done /\ ReturnsGradients) =>
    /\ Len(grads_and_vars) = Len(var_list)
    /\ \A j \in 1..Len(grads_and_vars) :
         grads_and_vars[j][2] = var_list[j] /\ grads_and_vars[j][1].wrt = var_list[j]

\* The draws referenced by the expressions handed to tf.gradients.
SurrogateDraws == UNION {ExprDraws(surrogates[i]) : i \in 1..Len(surrogates)}

LossIndependentOfDraws ==
  /\ builder = "build_score_kl_loss_and_gradients"
  /\ model_wrapper = "None"
  /\ \A x \in Range(DataRVOrder) : Ancestors(x) \cap DOMAIN latent_vars = {}

C7_LossAtSampleZero ==
  (Done /\ builder = "build_score_rb_loss_and_gradients") =>
    /\ Range(MapSeq(LAMBDA t : t.rv, loss.p[1])) = Range(model_rvs)
    /\ Range(MapSeq(LAMBDA t : t.rv, loss.q[1])) = DOMAIN latent_vars
    /\ \A t \in ExprTerms(loss) : TermDraws(t) \subseteq {0}

\* C8: with empty latent_vars KLqp ends in an error: it neither resolves
\* the estimator flag nor returns a loss and gradients.
C8_EmptyLatentsRejected ==
  (cls = "KLqp" /\ DOMAIN latent_vars = {}) =>
    /\ score = "unset"
    /\ ~Done

\* C9: a named class enters its one fixed builder whatever the latent
\* approximations and the model wrapper are; its initialize stores
\* n_samples and resolves no score flag.
C9_NamedClassFixed ==
  (cls # "KLqp") =>
    /\ score = "unset" /\ is_analytic_kl = "unset"
    /\ pc # "new" => n_samples = arg_n_samples
    /\ builder # "none" =>
         /\ cls = "ReparameterizationKLqp" => builder = "build_reparam_loss"
         /\ cls = "ReparameterizationKLKLqp" => builder = "build_reparam_kl_loss"
         /\ cls = "ReparameterizationEntropyKLqp" =>
              builder = "build_reparam_entropy_loss"
         /\ cls = "ScoreKLqp" => builder = "build_score_loss_and_gradients"
         /\ cls = "ScoreRBKLqp" => builder = "build_score_rb_loss_and_gradients"
         /\ cls = "ScoreKLKLqp" => builder = "build_score_kl_loss_and_gradients"
         /\ cls = "ScoreEntropyKLqp" =>
              builder = "build_score_entropy_loss_and_gradients"

\* Witness of C9: ScoreKLqp has run the vanilla score builder on Normal
\* approximations of Normal priors, for which KLqp would pick an
\* analytic-KL builder.
C9_Witness ==
  /\ cls = "ScoreKLqp" /\ Done
  /\ DOMAIN latent_vars = ZKeys
  /\ \A z \in ZKeys : latent_vars[z] = NormalKind
  /\ builder = "build_score_loss_and_gradients"
  /\ n_samples = arg_n_samples

\* The terms held by entry i (1-based) of the per-sample sequences.
EntryTerms(i) ==
  (IF i <= Len(p_log_prob) THEN Range(p_log_prob[i]) ELSE {})
  \cup (IF i <= Len(p_log_lik) THEN Range(p_log_lik[i]) ELSE {})
  \cup (IF i <= Len(q_log_prob) THEN Range(q_log_prob[i]) ELSE {})
  \cup (IF i <= Len(p_log_probs) THEN Range(DictValues(heap[p_log_probs[i]])) ELSE {})
  \cup (IF i <= Len(q_log_probs) THEN Range(DictValues(heap[q_log_probs[i]])) ELSE {})

\* C10: once loop iteration i-1 has run, entry i-1 of every per-sample
\* sequence holds values computed from the draw of that iteration, and
\* keeps them while the later iterations write their own entries.
C10_SamplesDistinct ==
  (pc \in {"loop", "done"}) =>
    \A i \in 1..s : \A t \in EntryTerms(i) : TermDraws(t) \subseteq {i - 1}

\* The random variables whose log-density terms an expression sums.
ModelRVsOf(e) == {t.rv : t \in Range(Flatten(e.p))}
ApproxRVsOf(e) == {t.rv : t \in Range(Flatten(e.q))}

\* z and the nodes below z in the model graph.
Below(z) == {z} \cup Reach({z}, {})

\* C11: in build_score_rb_loss_and_gradients the surrogate of latent z sums
\* model log-densities only of z and of its descendants among the latent and
\* observed random variables, and approximation log-densities only of the
\* latents among them; so for two latents with disjoint descendant sets,
\* neither below the other, the surrogate of one holds no term of the other
\* or of the other's descendants.
C11_RBDescendantsOnly ==
  (Done /\ builder = "build_score_rb_loss_and_gradients") =>
    \A i \in 1..Len(surrogates) :
      LET z == LatentOrder[i]
      IN /\ ModelRVsOf(surrogates[i]) \subseteq Below(z) \cap Range(model_rvs)
         /\ ApproxRVsOf(surrogates[i]) \subseteq Below(z) \cap DOMAIN latent_vars
         /\ \A y \in DOMAIN latent_vars \ {z} :
              (Below(z) \cap Below(y) = {}) =>
                (ModelRVsOf(surrogates[i]) \cup ApproxRVsOf(surrogates[i]))
                  \cap Below(y) = {}

\* Witness of C11: two latents with disjoint descendant sets, one of them
\* with an observed child; each surrogate holds its own terms only.
C11_Witness ==
  /\ Done /\ builder = "build_score_rb_loss_and_gradients"
  /\ DOMAIN latent_vars = ZKeys /\ "x1" \in data
  /\ Below("z1") = {"z1", "x1"} /\ Below("z2") = {"z2"}
  /\ Len(surrogates) = 2
  /\ ModelRVsOf(surrogates[1]) = {"z1", "x1"} /\ ApproxRVsOf(surrogates[1]) = {"z1"}
  /\ ModelRVsOf(surrogates[2]) = {"z2"} /\ ApproxRVsOf(surrogates[2]) = {"z2"}

ScoreBuilders == {"build_score_loss_and_gradients",
                  "build_score_rb_loss_and_gradients",
                  "build_score_kl_loss_and_gradients",
                  "build_score_entropy_loss_and_gradients"}

\* The terms accumulated by the loop iterations that have run.
AccumulatedTerms == UNION {EntryTerms(i) : i \in 1..s}

\* C12: in the four score-function builders every q_log_prob term is
\* evaluated on a sample wrapped in stop_gradient, and in the surrogate the
\* sampled model factor multiplying it is wrapped in stop_gradient; in
\* build_reparam_loss the sample enters q_log_prob and p_log_prob without
\* stop_gradient and the differentiated loss has no stopped factor.
C12_StopGradient ==
  /\ (pc \in {"loop", "done"} /\ builder \in ScoreBuilders) =>
       \A t \in AccumulatedTerms :
          t.fn = "q.log_prob" => (t.sg /\ t.at.kind = "draw")
  /\ (Done /\ builder \in ScoreBuilders) =>
       \A i \in 1..Len(surrogates) :
          /\ surrogates[i].stopped
          /\ \A t \in Range(Flatten(surrogates[i].q)) : t.fn = "q.log_prob" /\ t.sg
  /\ (pc \in {"loop", "done"} /\ builder = "build_reparam_loss") =>
       /\ \A t \in AccumulatedTerms : ~t.sg
       /\ \A i \in 1..Len(surrogates) : ~surrogates[i].stopped

\* Witness of C12: the vanilla score builder has returned a surrogate over
\* the approximation terms of two latents and two draws.
C12_Witness ==
  /\ Done /\ builder = "build_score_loss_and_gradients"
  /\ DOMAIN latent_vars = ZKeys /\ n_samples >= 2
  /\ Len(surrogates) = 1 /\ surrogates[1].stopped
  /\ Len(Flatten(surrogates[1].q)) = 2 * n_samples
  /\ \A t \in Range(Flatten(surrogates[1].q)) : t.sg

JointBuilders == {"build_reparam_loss", "build_reparam_entropy_loss",
                  "build_score_loss_and_gradients",
                  "build_score_entropy_loss_and_gradients"}
KLBuilders == {"build_reparam_kl_loss", "build_score_kl_loss_and_gradients"}

\* The summands of sum that are log-density terms of random variable k.
TermsOf(sum, k) == {j \in 1..Len(sum) : sum[j].rv = k}

\* sum has exactly one term of k, a model log-density evaluated at v.
OneTermAt(sum, k, v) ==
  /\ Cardinality(TermsOf(sum, k)) = 1
  /\ \A j \in TermsOf(sum, k) : sum[j].fn = "p.log_prob" /\ sum[j].at = v

ObservedRVs == {x \in data : IsRandomVariable(x)}

====
